---------------------------- MODULE Spec2Model ----------------------------
(***************************************************************************)
(* Model of aperisolve/analyzers/binwalk.py: analyze_binwalk, the binwalk  *)
(* analyzer runner.  One invocation runs the extraction tool (binwalk) as  *)
(* a child process, checks whether the extraction directory exists, runs   *)
(* the archiving tool (7z) over it, removes the directory, classifies the  *)
(* outcome and passes one record to update_data.  Every step that meets    *)
(* the environment (a child process, the file system, the result store) is *)
(* one action, and the environment's answer is drawn from a small set.     *)
(*                                                                         *)
(* A text is a sequence of tokens: one token per character of a tool's     *)
(* output ("\n" is the line break), one token for a fixed piece of text of *)
(* the source (a tag, a message).  Concatenation is \o.                    *)
(***************************************************************************)
EXTENDS Naturals, Sequences, FiniteSets

\* ------------------------------------------------------------------ bounds
MaxStdoutLen == 2
MaxStderrLen == 1
MaxExitCode == 1
MaxInvocations == 2

\* ---------------------------------------------------------------- universe
Procs == {"p1", "p2"}
Dirs == {"d1", "d2"}

\* Both invocations given one and the same working directory.
OutputDirShared(p) == "d1"

\* output_dir of each invocation slot: two jobs, two working directories.
OutputDir(p) == IF p = "p1" THEN "d1" ELSE "d2"

\* output_dir.name, the last component of the working directory's path.
DirName(d) == IF d = "d1" THEN <<"job1">> ELSE <<"job2">>

RECURSIVE TextsUpTo(_, _)
TextsUpTo(chars, n) ==
    IF n = 0 THEN {<<>>}
    ELSE LET shorter == TextsUpTo(chars, n - 1)
         IN  shorter \cup {Append(t, c) : t \in shorter, c \in chars}

Stdouts == TextsUpTo({"a", "\n"}, MaxStdoutLen)
BinwalkStderrs == TextsUpTo({"e"}, MaxStderrLen)
ZipStderrs == TextsUpTo({"z"}, MaxStderrLen)
ExitCodes == 0..MaxExitCode

NoData == [returncode |-> 0, stdout |-> <<>>, stderr |-> <<>>, set |-> FALSE]

VARIABLES
    pc,                  \* where each invocation stands
    invocations,         \* how many times each slot was invoked
    data,                \* data: the CompletedProcess of binwalk
    binwalk_stderr,      \* binwalk_stderr
    extraction_occurred, \* extraction_occurred
    zip_exist,           \* zip_exist
    zip_stderr,          \* zip_stderr
    exc,                 \* e: the exception caught at line 85
    extracted,           \* file system: extracted_dir exists, per working dir
    archive,             \* file system: binwalk.7z, per working directory
    artifact,            \* file system: ../<image_name>, the submitted file
    running,             \* child processes of the invocation still running
    spawned,             \* child processes the invocation has started
    calls,               \* the records the invocation passed to update_data
    hist                 \* the environment's answers to the invocation

vars == <<pc, invocations, data, binwalk_stderr, extraction_occurred,
          zip_exist, zip_stderr, exc, extracted, archive, artifact, running,
          spawned, calls, hist>>

locals == <<data, binwalk_stderr, extraction_occurred, zip_exist, zip_stderr>>
fs == <<extracted, archive, artifact>>

\* ------------------------------------------------------------ pure helpers

\* str.split("\n"): the pieces between line breaks; "" splits into [""].
RECURSIVE SplitLines(_)
SplitLines(s) ==
    IF \A i \in 1..Len(s) : s[i] # "\n" THEN <<s>>
    ELSE LET i == CHOOSE k \in 1..Len(s) :
                      s[k] = "\n" /\ \A j \in 1..(k - 1) : s[j] # "\n"
         IN  <<SubSeq(s, 1, i - 1)>> \o SplitLines(SubSeq(s, i + 1, Len(s)))

\* "\n".join(parts)
RECURSIVE JoinLines(_)
JoinLines(parts) ==
    IF parts = <<>> THEN <<>>
    ELSE IF Len(parts) = 1 THEN parts[1]
    ELSE parts[1] \o <<"\n">> \o JoinLines(Tail(parts))

\* str(e) of the exceptions the environment raises.
TimeoutMsg(tool) == <<"Command ", tool, " timed out">>
LaunchMsg(tool) == <<"No such file or directory: ", tool>>
ExistsMsg == <<"Permission denied: extracted_dir">>
RmtreeMsg == <<"Directory not empty: extracted_dir">>
StoreMsg == <<"update_data failed">>


\* One answer of the environment, as recorded in hist: the step that asked,
\* the kind of answer, a child's exit code and captured output (out is
\* binwalk's stdout, err the child's stderr) and the effect on the file
\* system.  A step occurs at most once in an invocation.
Ev(step, kind, rc, out, err, eff) ==
    [step |-> step, kind |-> kind, rc |-> rc, out |-> out, err |-> err,
     eff |-> eff]

\* ------------------------------------------------------------------- state

Init ==
    /\ pc = [p \in Procs |-> "idle"]
    /\ invocations = [p \in Procs |-> 0]
    /\ data = [p \in Procs |-> NoData]
    /\ binwalk_stderr = [p \in Procs |-> <<>>]
    /\ extraction_occurred = [p \in Procs |-> FALSE]
    /\ zip_exist = [p \in Procs |-> FALSE]
    /\ zip_stderr = [p \in Procs |-> <<>>]
    /\ exc = [p \in Procs |-> <<>>]
    /\ extracted = [d \in Dirs |-> FALSE]
    /\ archive = [d \in Dirs |-> "absent"]
    /\ artifact = [d \in Dirs |-> TRUE]
    /\ running = [p \in Procs |-> {}]
    /\ spawned = [p \in Procs |-> <<>>]
    /\ calls = [p \in Procs |-> <<>>]
    /\ hist = [p \in Procs |-> <<>>]

\* -------------------------------------------------------- the record built

\* error_messages with the second branch always tagged: the fallback text of
\* line 62 is lost and an empty stderr gives the bare tag.
ErrorMessagesAlwaysTagged(p) ==
    (IF binwalk_stderr[p] # <<>> /\ ~extraction_occurred[p]
       THEN << <<"Binwalk: ">> \o binwalk_stderr[p] >>
       ELSE <<>>)
    \o
    (IF extraction_occurred[p] /\ ~zip_exist[p]
       THEN << <<"7z compression: ">> \o zip_stderr[p] >>
       ELSE <<>>)

\* error_messages with binwalk's stderr reported whether or not extraction
\* occurred.
ErrorMessagesBoth(p) ==
    (IF binwalk_stderr[p] # <<>>
       THEN << <<"Binwalk: ">> \o binwalk_stderr[p] >>
       ELSE <<>>)
    \o
    (IF extraction_occurred[p] /\ ~zip_exist[p]
       THEN IF zip_stderr[p] # <<>>
              THEN << <<"7z compression: ">> \o zip_stderr[p] >>
              ELSE << <<"7z compression failed with no error output">> >>
       ELSE <<>>)

\* error_messages without the first branch: binwalk's stderr is never
\* reported.
ErrorMessagesNoBinwalk(p) ==
    IF extraction_occurred[p] /\ ~zip_exist[p]
      THEN IF zip_stderr[p] # <<>>
             THEN << <<"7z compression: ">> \o zip_stderr[p] >>
             ELSE << <<"7z compression failed with no error output">> >>
      ELSE <<>>

\* error_messages with a non-zero exit code of binwalk taken for a failure.
ErrorMessagesExitCode(p) ==
    (IF (binwalk_stderr[p] # <<>> \/ data[p].returncode # 0)
          /\ ~extraction_occurred[p]
       THEN << <<"Binwalk: ">> \o binwalk_stderr[p] >>
       ELSE <<>>)
    \o
    (IF extraction_occurred[p] /\ ~zip_exist[p]
       THEN IF zip_stderr[p] # <<>>
              THEN << <<"7z compression: ">> \o zip_stderr[p] >>
              ELSE << <<"7z compression failed with no error output">> >>
       ELSE <<>>)

\* error_messages, lines 55-62.
ErrorMessages(p) ==
    (IF binwalk_stderr[p] # <<>> /\ ~extraction_occurred[p]
       THEN << <<"Binwalk: ">> \o binwalk_stderr[p] >>
       ELSE <<>>)
    \o
    (IF extraction_occurred[p] /\ ~zip_exist[p]
       THEN IF zip_stderr[p] # <<>>
              THEN << <<"7z compression: ">> \o zip_stderr[p] >>
              ELSE << <<"7z compression failed with no error output">> >>
       ELSE <<>>)

\* err, lines 65-70: the value under the key "binwalk".
ErrRecord(p) ==
    [status |-> "error", error |-> JoinLines(ErrorMessages(p))]

\* The download reference built from the whole path in place of its name.
DownloadRefPath(d) == <<"/download/", d, "/binwalk">>

\* The download reference, line 81.
DownloadRef(d) == <<"/download/">> \o DirName(d) \o <<"/binwalk">>

\* output_data with the download reference added whatever zip_exist is.
OkRecordAlwaysDownload(p) ==
    [status |-> "ok",
     output |-> IF data[p].set THEN SplitLines(data[p].stdout) ELSE <<>>,
     download |-> DownloadRef(OutputDir(p))]

\* output_data, lines 74-81: the value under the key "binwalk".
OkRecord(p) ==
    LET output == IF data[p].set THEN SplitLines(data[p].stdout) ELSE <<>>
    IN  IF zip_exist[p]
          THEN [status |-> "ok", output |-> output,
                download |-> DownloadRef(OutputDir(p))]
          ELSE [status |-> "ok", output |-> output]

\* The record of lines 64-83: err when error_messages is not empty.
ClassifiedRecord(p) ==
    IF ErrorMessages(p) # <<>> THEN ErrRecord(p) ELSE OkRecord(p)

\* An except clause that reports a fixed text in place of str(e).
HandlerRecordGeneric(p) == [status |-> "error", error |-> <<"binwalk failed">>]

\* The record of the except clause, line 86.
HandlerRecord(p) == [status |-> "error", error |-> exc[p]]

\* update_data(output_dir, record) of .utils, as its caller sees it: the
\* record is stored and the call returns, or the call raises.
UpdateDataOutcomes == {"stored", "raised"}

\* One call update_data(output_dir, {"binwalk": rec}).
Call(p, rec) == [dir |-> OutputDir(p), binwalk |-> rec]


\* ----------------------------------------------------------------- actions

Record(p, e) == hist' = [hist EXCEPT ![p] = Append(@, e)]

Raise(p, msg) ==
    /\ exc' = [exc EXCEPT ![p] = msg]
    /\ pc' = [pc EXCEPT ![p] = "handler"]

\* Entry, lines 10-16: image_name and extracted_dir are derived, nothing has
\* run yet.  A slot may be invoked again once its invocation has ended.
Invoke(p) ==
    /\ pc[p] \in {"idle", "returned", "raised"}
    /\ invocations[p] < MaxInvocations
    /\ invocations' = [invocations EXCEPT ![p] = @ + 1]
    /\ pc' = [pc EXCEPT ![p] = "launch_binwalk"]
    /\ data' = [data EXCEPT ![p] = NoData]
    /\ binwalk_stderr' = [binwalk_stderr EXCEPT ![p] = <<>>]
    /\ extraction_occurred' = [extraction_occurred EXCEPT ![p] = FALSE]
    /\ zip_exist' = [zip_exist EXCEPT ![p] = FALSE]
    /\ zip_stderr' = [zip_stderr EXCEPT ![p] = <<>>]
    /\ exc' = [exc EXCEPT ![p] = <<>>]
    /\ spawned' = [spawned EXCEPT ![p] = <<>>]
    /\ calls' = [calls EXCEPT ![p] = <<>>]
    /\ hist' = [hist EXCEPT ![p] = <<>>]
    /\ UNCHANGED <<fs, running>>

\* subprocess.run(["binwalk", ...]), line 18: the child is started, or the
\* launch raises (no such program, no such working directory).
LaunchBinwalk(p) ==
    /\ pc[p] = "launch_binwalk"
    /\ \/ /\ running' = [running EXCEPT ![p] = @ \cup {"binwalk"}]
          /\ spawned' = [spawned EXCEPT ![p] = Append(@, "binwalk")]
          /\ pc' = [pc EXCEPT ![p] = "wait_binwalk"]
          /\ Record(p, Ev("launch_binwalk", "started", 0, <<>>, <<>>, "none"))
          /\ UNCHANGED exc
       \/ /\ Raise(p, LaunchMsg("binwalk"))
          /\ Record(p, Ev("launch_binwalk", "launch_failed", 0, <<>>, <<>>, "none"))
          /\ UNCHANGED <<running, spawned>>
    /\ UNCHANGED <<invocations, locals, fs, calls>>

\* The extraction directory after binwalk has run: binwalk may create it and
\* never removes it.
AfterBinwalk(d, created) ==
    [extracted EXCEPT ![d] = @ \/ created]

\* binwalk exits within the timeout, lines 18-26: any exit code (check=False),
\* its captured output, and the extraction directory created or not.
BinwalkExits(p) ==
    /\ pc[p] = "wait_binwalk"
    /\ \E rc \in ExitCodes, out \in Stdouts, err \in BinwalkStderrs,
          created \in BOOLEAN :
          /\ data' = [data EXCEPT ![p] = [returncode |-> rc, stdout |-> out,
                                          stderr |-> err, set |-> TRUE]]
          /\ binwalk_stderr' = [binwalk_stderr EXCEPT ![p] = err]
          /\ extracted' = AfterBinwalk(OutputDir(p), created)
          /\ Record(p, Ev("binwalk", "exited", rc, out, err,
                          IF created THEN "created" ELSE "none"))
    /\ running' = [running EXCEPT ![p] = @ \ {"binwalk"}]
    /\ pc' = [pc EXCEPT ![p] = "check"]
    /\ UNCHANGED <<invocations, extraction_occurred, zip_exist, zip_stderr,
                   exc, archive, artifact, spawned, calls>>

\* A timeout of binwalk answered by running binwalk once more.
BinwalkTimesOutRetry(p) ==
    /\ pc[p] = "wait_binwalk"
    /\ \E created \in BOOLEAN :
          /\ extracted' = AfterBinwalk(OutputDir(p), created)
          /\ Record(p, Ev("binwalk", "timeout", 0, <<>>, <<>>,
                          IF created THEN "created" ELSE "none"))
    /\ running' = [running EXCEPT ![p] = @ \ {"binwalk"}]
    /\ pc' = [pc EXCEPT ![p] = IF Len(spawned[p]) < 2 THEN "launch_binwalk"
                                                      ELSE "handler"]
    /\ exc' = [exc EXCEPT ![p] = TimeoutMsg("binwalk")]
    /\ UNCHANGED <<invocations, locals, archive, artifact, spawned, calls>>

\* A timeout of binwalk that leaves the child running.
BinwalkTimesOutNoKill(p) ==
    /\ pc[p] = "wait_binwalk"
    /\ \E created \in BOOLEAN :
          /\ extracted' = AfterBinwalk(OutputDir(p), created)
          /\ Record(p, Ev("binwalk", "timeout", 0, <<>>, <<>>,
                          IF created THEN "created" ELSE "none"))
    /\ Raise(p, TimeoutMsg("binwalk"))
    /\ UNCHANGED <<invocations, locals, archive, artifact, running, spawned,
                   calls>>

\* binwalk exceeds MAX_PENDING_TIME, line 24: subprocess.run kills the child,
\* waits for it and raises TimeoutExpired.  What the child wrote stays.
BinwalkTimesOut(p) ==
    /\ pc[p] = "wait_binwalk"
    /\ \E created \in BOOLEAN :
          /\ extracted' = AfterBinwalk(OutputDir(p), created)
          /\ Record(p, Ev("binwalk", "timeout", 0, <<>>, <<>>,
                          IF created THEN "created" ELSE "none"))
    /\ running' = [running EXCEPT ![p] = @ \ {"binwalk"}]
    /\ Raise(p, TimeoutMsg("binwalk"))
    /\ UNCHANGED <<invocations, locals, archive, artifact, spawned, calls>>

\* The check of lines 29-33 with the archiving decided by binwalk's exit code
\* in place of the directory's existence.
CheckExtractionByExitCode(p) ==
    /\ pc[p] = "check"
    /\ extraction_occurred' =
          [extraction_occurred EXCEPT ![p] = (data[p].returncode = 0)]
    /\ zip_exist' = [zip_exist EXCEPT ![p] = FALSE]
    /\ zip_stderr' = [zip_stderr EXCEPT ![p] = <<>>]
    /\ pc' = [pc EXCEPT ![p] = IF data[p].returncode = 0
                                 THEN "launch_zip" ELSE "cleanup"]
    /\ Record(p, Ev("check", "answered", 0, <<>>, <<>>,
                    IF extracted[OutputDir(p)] THEN "present" ELSE "absent"))
    /\ UNCHANGED <<invocations, data, binwalk_stderr, exc, fs, running,
                   spawned, calls>>

\* extraction_occurred = extracted_dir.exists(), lines 29-33; Path.exists()
\* raises the OSError of a stat that fails for another reason than absence.
CheckExtraction(p) ==
    /\ pc[p] = "check"
    /\ \/ /\ extraction_occurred' =
                [extraction_occurred EXCEPT ![p] = extracted[OutputDir(p)]]
          /\ zip_exist' = [zip_exist EXCEPT ![p] = FALSE]
          /\ zip_stderr' = [zip_stderr EXCEPT ![p] = <<>>]
          /\ pc' = [pc EXCEPT ![p] = IF extracted[OutputDir(p)]
                                       THEN "launch_zip" ELSE "cleanup"]
          /\ Record(p, Ev("check", "answered", 0, <<>>, <<>>,
                          IF extracted[OutputDir(p)] THEN "present"
                                                     ELSE "absent"))
          /\ UNCHANGED exc
       \/ /\ Raise(p, ExistsMsg)
          /\ Record(p, Ev("check", "raised", 0, <<>>, <<>>, "none"))
          /\ UNCHANGED <<extraction_occurred, zip_exist, zip_stderr>>
    /\ UNCHANGED <<invocations, data, binwalk_stderr, fs, running, spawned,
                   calls>>

\* subprocess.run(["7z", ...], cwd=extracted_dir), line 35.
LaunchZip(p) ==
    /\ pc[p] = "launch_zip"
    /\ \/ /\ running' = [running EXCEPT ![p] = @ \cup {"7z"}]
          /\ spawned' = [spawned EXCEPT ![p] = Append(@, "7z")]
          /\ pc' = [pc EXCEPT ![p] = "wait_zip"]
          /\ Record(p, Ev("launch_7z", "started", 0, <<>>, <<>>, "none"))
          /\ UNCHANGED exc
       \/ /\ Raise(p, LaunchMsg("7z"))
          /\ Record(p, Ev("launch_7z", "launch_failed", 0, <<>>, <<>>, "none"))
          /\ UNCHANGED <<running, spawned>>
    /\ UNCHANGED <<invocations, locals, fs, calls>>

\* What a 7z run that did not succeed may leave of ../binwalk.7z.
ArchiveLeftovers(d) == {archive[d], "partial"}

\* 7z's exit taken for a success whatever its exit code.
ZipExitsAnyCode(p) ==
    /\ pc[p] = "wait_zip"
    /\ \E rc \in ExitCodes, err \in ZipStderrs :
          /\ zip_stderr' = [zip_stderr EXCEPT ![p] = err]
          /\ zip_exist' = [zip_exist EXCEPT ![p] = TRUE]
          /\ \E a \in (IF rc = 0 THEN {"complete"}
                                 ELSE ArchiveLeftovers(OutputDir(p))) :
                /\ archive' = [archive EXCEPT ![OutputDir(p)] = a]
                /\ Record(p, Ev("7z", "exited", rc, <<>>, err, a))
    /\ running' = [running EXCEPT ![p] = @ \ {"7z"}]
    /\ pc' = [pc EXCEPT ![p] = "cleanup"]
    /\ UNCHANGED <<invocations, data, binwalk_stderr, extraction_occurred,
                   exc, extracted, artifact, spawned, calls>>

\* 7z exits within the timeout, lines 35-46: zip_exist only for exit code 0.
ZipExits(p) ==
    /\ pc[p] = "wait_zip"
    /\ \E rc \in ExitCodes, err \in ZipStderrs :
          /\ zip_stderr' = [zip_stderr EXCEPT ![p] = err]
          /\ zip_exist' = [zip_exist EXCEPT ![p] = (rc = 0)]
          /\ \E a \in (IF rc = 0 THEN {"complete"}
                                 ELSE ArchiveLeftovers(OutputDir(p))) :
                /\ archive' = [archive EXCEPT ![OutputDir(p)] = a]
                /\ Record(p, Ev("7z", "exited", rc, <<>>, err, a))
    /\ running' = [running EXCEPT ![p] = @ \ {"7z"}]
    /\ pc' = [pc EXCEPT ![p] = "cleanup"]
    /\ UNCHANGED <<invocations, data, binwalk_stderr, extraction_occurred,
                   exc, extracted, artifact, spawned, calls>>

\* 7z exceeds MAX_PENDING_TIME, line 41: killed, TimeoutExpired raised.
ZipTimesOut(p) ==
    /\ pc[p] = "wait_zip"
    /\ \E a \in ArchiveLeftovers(OutputDir(p)) :
          /\ archive' = [archive EXCEPT ![OutputDir(p)] = a]
          /\ Record(p, Ev("7z", "timeout", 0, <<>>, <<>>, a))
    /\ running' = [running EXCEPT ![p] = @ \ {"7z"}]
    /\ Raise(p, TimeoutMsg("7z"))
    /\ UNCHANGED <<invocations, locals, extracted, artifact, spawned, calls>>

\* A cleanup that removes the working directory's whole content: the
\* extraction directory and the archive beside it.
CleanupWorkingDir(p) ==
    /\ pc[p] = "cleanup"
    /\ extracted' = [extracted EXCEPT ![OutputDir(p)] = FALSE]
    /\ archive' = [archive EXCEPT ![OutputDir(p)] = "absent"]
    /\ pc' = [pc EXCEPT ![p] = "classify"]
    /\ Record(p, Ev("cleanup", IF extracted[OutputDir(p)] THEN "removed"
                                                          ELSE "absent",
                    0, <<>>, <<>>, "none"))
    /\ UNCHANGED <<invocations, locals, exc, artifact, running, spawned, calls>>

\* A removal put off until after the result is written: the classification
\* is reached with the extraction directory as it is.
CleanupDeferred(p) ==
    /\ pc[p] = "cleanup"
    /\ pc' = [pc EXCEPT ![p] = "classify"]
    /\ Record(p, Ev("cleanup", "absent", 0, <<>>, <<>>, "none"))
    /\ UNCHANGED <<invocations, locals, exc, fs, running, spawned, calls>>

\* if extracted_dir.exists(): shutil.rmtree(extracted_dir), lines 49-50.
\* exists() may raise as at line 29; rmtree removes the tree, or raises and
\* leaves (a part of) it.
Cleanup(p) ==
    /\ pc[p] = "cleanup"
    /\ \/ /\ ~extracted[OutputDir(p)]
          /\ pc' = [pc EXCEPT ![p] = "classify"]
          /\ Record(p, Ev("cleanup", "absent", 0, <<>>, <<>>, "none"))
          /\ UNCHANGED <<exc, extracted>>
       \/ /\ extracted[OutputDir(p)]
          /\ extracted' = [extracted EXCEPT ![OutputDir(p)] = FALSE]
          /\ pc' = [pc EXCEPT ![p] = "classify"]
          /\ Record(p, Ev("cleanup", "removed", 0, <<>>, <<>>, "none"))
          /\ UNCHANGED exc
       \/ /\ extracted[OutputDir(p)]
          /\ Raise(p, RmtreeMsg)
          /\ Record(p, Ev("cleanup", "rmtree_raised", 0, <<>>, <<>>, "none"))
          /\ UNCHANGED extracted
       \/ /\ Raise(p, ExistsMsg)
          /\ Record(p, Ev("cleanup", "exists_raised", 0, <<>>, <<>>, "none"))
          /\ UNCHANGED extracted
    /\ UNCHANGED <<invocations, locals, archive, artifact, running, spawned,
                   calls>>

\* Lines 55-83: the record is built and passed to update_data, which returns
\* (the function returns, line 72 or the end of the try block and line 87) or
\* raises into the except clause.
Classify(p) ==
    /\ pc[p] = "classify"
    /\ calls' = [calls EXCEPT ![p] = Append(@, Call(p, ClassifiedRecord(p)))]
    /\ \E o \in UpdateDataOutcomes :
          /\ Record(p, Ev("update_data", o, 0, <<>>, <<>>, "none"))
          /\ IF o = "stored"
               THEN pc' = [pc EXCEPT ![p] = "returned"] /\ UNCHANGED exc
               ELSE Raise(p, StoreMsg)
    /\ UNCHANGED <<invocations, locals, fs, running, spawned>>

\* An except clause that swallows the exception and writes nothing.
HandlerSilent(p) ==
    /\ pc[p] = "handler"
    /\ pc' = [pc EXCEPT ![p] = "returned"]
    /\ Record(p, Ev("handler", "stored", 0, <<>>, <<>>, "none"))
    /\ UNCHANGED <<invocations, locals, exc, fs, running, spawned, calls>>

\* except Exception as e, lines 85-87: one more update_data, with str(e); an
\* exception it raises leaves analyze_binwalk.
Handler(p) ==
    /\ pc[p] = "handler"
    /\ calls' = [calls EXCEPT ![p] = Append(@, Call(p, HandlerRecord(p)))]
    /\ \E o \in UpdateDataOutcomes :
          /\ Record(p, Ev("handler", o, 0, <<>>, <<>>, "none"))
          /\ pc' = [pc EXCEPT ![p] = IF o = "stored" THEN "returned"
                                                     ELSE "raised"]
    /\ UNCHANGED <<invocations, locals, exc, fs, running, spawned>>

Step(p) ==
    \/ Invoke(p)
    \/ LaunchBinwalk(p)
    \/ BinwalkExits(p)
    \/ BinwalkTimesOut(p)
    \/ CheckExtraction(p)
    \/ LaunchZip(p)
    \/ ZipExits(p)
    \/ ZipTimesOut(p)
    \/ Cleanup(p)
    \/ Classify(p)
    \/ Handler(p)

\* One working directory, invoked MaxInvocations times in a row.
Next == Step("p1")

Spec == Init /\ [][Next]_vars


\* ------------------------------------------------- reading an invocation

Ended(p) == pc[p] \in {"returned", "raised"}

Did(p, step) == \E i \in 1..Len(hist[p]) : hist[p][i].step = step

Answer(p, step) ==
    hist[p][CHOOSE i \in 1..Len(hist[p]) : hist[p][i].step = step]

Got(p, step, kind) == Did(p, step) /\ Answer(p, step).kind = kind

\* The extraction tool returned and the directory existed (did not exist) at
\* the check made after it.
DirAtCheck(p) == Got(p, "check", "answered") /\ Answer(p, "check").eff = "present"
NoDirAtCheck(p) == Got(p, "check", "answered") /\ Answer(p, "check").eff = "absent"

TimedOut(p) == Got(p, "binwalk", "timeout") \/ Got(p, "7z", "timeout")

\* The removal of lines 49-50 ran to its end, or raised.
CleanupDone(p) == Got(p, "cleanup", "absent") \/ Got(p, "cleanup", "removed")
CleanupRaised(p) ==
    Got(p, "cleanup", "rmtree_raised") \/ Got(p, "cleanup", "exists_raised")
CleanupMsg(p) ==
    IF Got(p, "cleanup", "rmtree_raised") THEN RmtreeMsg ELSE ExistsMsg

\* The first record the invocation passed to update_data.
Wrote(p) == Len(calls[p]) >= 1
First(p) == calls[p][1].binwalk

IsError(r, msg) ==
    /\ DOMAIN r = {"status", "error"}
    /\ r.status = "error"
    /\ r.error = msg

\* lines is text split at its line breaks: no piece holds a line break, and
\* the pieces joined by line breaks give the text back.
IsSplitOf(lines, text) ==
    /\ Len(lines) >= 1
    /\ \A i \in 1..Len(lines) : \A j \in 1..Len(lines[i]) : lines[i][j] # "\n"
    /\ JoinLines(lines) = text

IsOk(r, stdout) ==
    /\ r.status = "ok"
    /\ "output" \in DOMAIN r
    /\ "error" \notin DOMAIN r
    /\ IsSplitOf(r.output, stdout)

\* ------------------------------------------------------------------ claims

\* C1: when analyze_binwalk returns, on every exit path, the extraction
\* directory output_dir/_<image_name>.extracted does not exist.
C1_NoExtractionDirAtReturn ==
    \A p \in Procs : pc[p] = "returned" => ~extracted[OutputDir(p)]

\* C2: analyze_binwalk never propagates an exception to its caller, whatever
\* the child processes, the file system and the result store do.
C2_NeverPropagates ==
    \A p \in Procs : pc[p] # "raised"

\* C3: update_data is called exactly once between entry and return, on every
\* path, the path where a result write raises included.
C3_ExactlyOneCall ==
    \A p \in Procs : Ended(p) => Len(calls[p]) = 1

\* C4: if either child process exceeds the timeout, the invocation passes
\* exactly one record to update_data, its status is error, and no ok record
\* is passed.
C4_TimeoutOneErrorRecord ==
    \A p \in Procs :
        TimedOut(p) =>
            /\ Len(calls[p]) <= 1
            /\ \A i \in 1..Len(calls[p]) : calls[p][i].binwalk.status = "error"
            /\ Ended(p) => Len(calls[p]) = 1

C4_Witness ==
    /\ pc["p1"] = "returned"
    /\ Got("p1", "7z", "timeout")
    /\ Len(calls["p1"]) = 1
    /\ extracted["d1"]


\* What the claims C5 to C9 expect, read from the environment's answers.
BinwalkStdout(p) == Answer(p, "binwalk").out
BinwalkErr(p) == Answer(p, "binwalk").err
ZipFailed(p) == Got(p, "7z", "exited") /\ Answer(p, "7z").rc # 0

C5_Case(p) ==
    /\ Ended(p)
    /\ DirAtCheck(p)
    /\ Got(p, "7z", "exited")
    /\ Answer(p, "7z").rc = 0

C5_Record(p) ==
    /\ Wrote(p)
    /\ IsOk(First(p), BinwalkStdout(p))
    /\ "download" \in DOMAIN First(p)
    /\ First(p).download = <<"/download/">> \o DirName(OutputDir(p)) \o <<"/binwalk">>

\* C5 as stated: the directory exists at the check and 7z exits 0, then the
\* record written is ok, its output is binwalk's stdout split into lines and
\* it carries /download/<output_dir name>/binwalk, for every outcome of the
\* removal of the directory.
C5_Original ==
    \A p \in Procs : C5_Case(p) => C5_Record(p)

\* C5 as amended: the same, provided the removal of the directory (the check
\* of line 49 and the rmtree of line 50) raises nothing; when it raises, the
\* record written is the error record with the exception's message.
C5_OkWithDownload ==
    \A p \in Procs :
        C5_Case(p) =>
            IF CleanupDone(p) THEN C5_Record(p)
            ELSE CleanupRaised(p) /\ Wrote(p) /\ IsError(First(p), CleanupMsg(p))

C5_Witness ==
    /\ pc["p1"] = "returned"
    /\ C5_Case("p1")
    /\ Got("p1", "cleanup", "removed")
    /\ BinwalkStdout("p1") = <<"a", "\n">>
    /\ First("p1").output = << <<"a">>, <<>> >>
    /\ First("p1").download = <<"/download/", "job1", "/binwalk">>

C6_Case(p) ==
    /\ Ended(p)
    /\ DirAtCheck(p)
    /\ ZipFailed(p)
    /\ Answer(p, "7z").err = <<>>

\* C6 as stated: the directory exists at the check and 7z exits non-zero with
\* empty stderr, then the record written is the error record whose message is
\* exactly "archiving failed with no error output".
C6_Original ==
    \A p \in Procs :
        C6_Case(p) =>
            Wrote(p) /\ IsError(First(p), <<"archiving failed with no error output">>)

\* C6 as amended: the message is exactly "7z compression failed with no error
\* output" (no tag-prefixed empty text, no binwalk stderr), provided the
\* removal of the directory raises nothing; when it raises, the record
\* written is the error record with the exception's message.
C6_FallbackMessage ==
    \A p \in Procs :
        C6_Case(p) =>
            /\ Wrote(p)
            /\ IF CleanupDone(p)
                 THEN IsError(First(p),
                              <<"7z compression failed with no error output">>)
                 ELSE CleanupRaised(p) /\ IsError(First(p), CleanupMsg(p))

C6_Witness ==
    /\ pc["p1"] = "returned"
    /\ C6_Case("p1")
    /\ CleanupDone("p1")
    /\ BinwalkErr("p1") # <<>>
    /\ Len(calls["p1"]) = 1

C7_Case(p) ==
    /\ Ended(p)
    /\ DirAtCheck(p)
    /\ ZipFailed(p)
    /\ Answer(p, "7z").err # <<>>

\* C7 as stated: the directory exists at the check and 7z exits non-zero with
\* non-empty stderr, then the record written is the error record whose
\* message is "7z compression: " followed by 7z's stderr, binwalk's stderr
\* not being part of it.
C7_Original ==
    \A p \in Procs :
        C7_Case(p) =>
            Wrote(p) /\ IsError(First(p), <<"7z compression: ">> \o Answer(p, "7z").err)

\* C7 as amended: the same, provided the removal of the directory raises
\* nothing; when it raises, the record written is the error record with the
\* exception's message.
C7_ZipErrorMessage ==
    \A p \in Procs :
        C7_Case(p) =>
            /\ Wrote(p)
            /\ IF CleanupDone(p)
                 THEN IsError(First(p), <<"7z compression: ">> \o Answer(p, "7z").err)
                 ELSE CleanupRaised(p) /\ IsError(First(p), CleanupMsg(p))

C7_Witness ==
    /\ pc["p1"] = "returned"
    /\ C7_Case("p1")
    /\ CleanupDone("p1")
    /\ BinwalkErr("p1") = <<"e">>
    /\ First("p1").error = <<"7z compression: ", "z">>

C8_Case(p) ==
    /\ Ended(p)
    /\ NoDirAtCheck(p)
    /\ BinwalkErr(p) # <<>>

\* C8 as stated: the directory does not exist at the check and binwalk's
\* stderr is non-empty, then the record written is the error record whose
\* message is "Binwalk: " followed by that stderr, and 7z is not invoked.
C8_Original ==
    \A p \in Procs :
        C8_Case(p) =>
            /\ Wrote(p)
            /\ IsError(First(p), <<"Binwalk: ">> \o BinwalkErr(p))
            /\ ~Did(p, "launch_7z")

\* C8 as amended: the same, provided the check of line 49 raises nothing;
\* when it raises, the record written is the error record with the
\* exception's message, and 7z is not invoked either.
C8_BinwalkErrorMessage ==
    \A p \in Procs :
        C8_Case(p) =>
            /\ Wrote(p)
            /\ ~Did(p, "launch_7z")
            /\ spawned[p] = <<"binwalk">>
            /\ IF CleanupDone(p)
                 THEN IsError(First(p), <<"Binwalk: ">> \o BinwalkErr(p))
                 ELSE CleanupRaised(p) /\ IsError(First(p), CleanupMsg(p))

C8_Witness ==
    /\ pc["p1"] = "returned"
    /\ C8_Case("p1")
    /\ CleanupDone("p1")
    /\ First("p1").error = <<"Binwalk: ", "e">>

C9_Case(p) ==
    /\ Ended(p)
    /\ NoDirAtCheck(p)
    /\ BinwalkErr(p) = <<>>

C9_Record(p) ==
    /\ Wrote(p)
    /\ IsOk(First(p), BinwalkStdout(p))
    /\ "download" \notin DOMAIN First(p)

\* C9 as stated: the directory does not exist at the check and binwalk's
\* stderr is empty, then the record written is ok, its output is binwalk's
\* stdout split into lines and it has no download reference.
C9_Original ==
    \A p \in Procs : C9_Case(p) => C9_Record(p)

\* C9 as amended: the same, provided the check of line 49 raises nothing;
\* when it raises, the record written is the error record with the
\* exception's message.
C9_OkWithoutDownload ==
    \A p \in Procs :
        C9_Case(p) =>
            IF CleanupDone(p) THEN C9_Record(p)
            ELSE CleanupRaised(p) /\ Wrote(p) /\ IsError(First(p), CleanupMsg(p))

C9_Witness ==
    /\ pc["p1"] = "returned"
    /\ C9_Case("p1")
    /\ CleanupDone("p1")
    /\ BinwalkStdout("p1") = <<>>
    /\ First("p1") = [status |-> "ok", output |-> << <<>> >>]
    /\ data["p1"].returncode # 0


\* ------------------------------------------------------ paired invocations

\* Two answers of the environment that agree in everything but binwalk's exit
\* code.
SameButExitCode(e, f) ==
    /\ e.step = f.step
    /\ e.kind = f.kind
    /\ e.out = f.out
    /\ e.err = f.err
    /\ e.eff = f.eff
    /\ (e.step # "binwalk" => e.rc = f.rc)

\* As far as both invocations have come, the environment has answered them
\* alike, binwalk's exit code apart.
Mirrors ==
    \A i \in 1..Len(hist["p1"]) :
        i <= Len(hist["p2"]) => SameButExitCode(hist["p1"][i], hist["p2"][i])

\* One invocation in d1, then one in d2 that the environment answers as it
\* answered the first, with an exit code of binwalk of its own choice.
NextPair ==
    \/ /\ invocations["p1"] = 0 \/ ~Ended("p1")
       /\ Step("p1")
    \/ /\ Ended("p1")
       /\ invocations["p2"] = 0 \/ ~Ended("p2")
       /\ Step("p2")
       /\ Mirrors'

SpecPair == Init /\ [][NextPair]_vars

\* Two records with the same status, output, error and download fields; the
\* middle piece of a download reference is the working directory's own name.
SameFields(r, q) ==
    /\ DOMAIN r = DOMAIN q
    /\ r.status = q.status
    /\ "error" \in DOMAIN r => r.error = q.error
    /\ "output" \in DOMAIN r => r.output = q.output
    /\ "download" \in DOMAIN r =>
          /\ Len(r.download) = Len(q.download)
          /\ \A i \in (1..Len(r.download)) \ {2} : r.download[i] = q.download[i]

C10_Case ==
    /\ Ended("p1")
    /\ Ended("p2")
    /\ Len(hist["p1"]) = Len(hist["p2"])
    /\ Mirrors
    /\ Got("p1", "binwalk", "exited")
    /\ Answer("p1", "binwalk").rc # Answer("p2", "binwalk").rc

\* C10: two invocations that agree on binwalk's stdout and stderr, on the
\* existence of the extraction directory, on 7z's result and on every other
\* answer of the environment, and differ in binwalk's exit code, pass records
\* with identical status, output, error and download fields to update_data.
C10_ExitCodeIrrelevant ==
    C10_Case =>
        /\ Len(calls["p1"]) = Len(calls["p2"])
        /\ \A i \in 1..Len(calls["p1"]) :
              SameFields(calls["p1"][i].binwalk, calls["p2"][i].binwalk)

C10_Witness ==
    /\ C10_Case
    /\ pc["p1"] = "returned"
    /\ Answer("p1", "binwalk").rc = 0
    /\ Answer("p2", "binwalk").rc # 0
    /\ NoDirAtCheck("p2")
    /\ BinwalkErr("p2") = <<>>
    /\ First("p2").status = "ok"


\* -------------------------------------------------- concurrent invocations

\* binwalk printed nothing on its standard output and exited with code 0.
QuietBinwalk ==
    \A p \in Procs : data[p].stdout = <<>> /\ data[p].returncode = 0

\* Two invocations, one in d1 and one in d2, each run once, their steps
\* interleaved in every order.  The text binwalk prints and its exit code play
\* no part in what the invocations do to the file system and are kept fixed.
NextConc ==
    \E p \in Procs :
        /\ invocations[p] = 0 \/ ~Ended(p)
        /\ Step(p)
        /\ QuietBinwalk'

SpecConc == Init /\ [][NextConc]_vars

\* What the invocation's own history says of its extraction directory, the
\* working directory being fresh at entry: created by its binwalk and not
\* yet removed by its rmtree.
OwnCreated(p) == Did(p, "binwalk") /\ Answer(p, "binwalk").eff = "created"
OwnDirLeft(p) == OwnCreated(p) /\ ~Got(p, "cleanup", "removed")
OwnArchive(p) == IF Did(p, "7z") THEN Answer(p, "7z").eff ELSE "absent"

\* Two lists of calls with the same records, the working directory apart.
SameCalls(c, k) ==
    /\ Len(c) = Len(k)
    /\ \A i \in 1..Len(c) : SameFields(c[i].binwalk, k[i].binwalk)

\* C11: two invocations running concurrently in different working
\* directories do not interfere.  In every interleaving the extraction
\* directory and the archive of an invocation's working directory are what
\* its own steps made of them (the other invocation neither creates, removes
\* nor archives them), its existence check and its cleanup answer for its own
\* directory, and two invocations that got the same answers stand at the same
\* place with the same locals and the same records.
C11_NoInterference ==
    /\ \A p \in Procs :
          /\ extracted[OutputDir(p)] = OwnDirLeft(p)
          /\ archive[OutputDir(p)] = OwnArchive(p)
          /\ Got(p, "check", "answered") =>
                (Answer(p, "check").eff = "present" <=> OwnCreated(p))
          /\ Did(p, "launch_7z") => OwnCreated(p)
          /\ Did(p, "cleanup") =>
                /\ Answer(p, "cleanup").kind = "absent" => ~OwnCreated(p)
                /\ Answer(p, "cleanup").kind \in {"removed", "rmtree_raised"}
                      => OwnCreated(p)
    /\ \A p, q \in Procs :
          hist[p] = hist[q] /\ invocations[p] = invocations[q] =>
              /\ pc[p] = pc[q]
              /\ data[p] = data[q]
              /\ extraction_occurred[p] = extraction_occurred[q]
              /\ zip_exist[p] = zip_exist[q]
              /\ zip_stderr[p] = zip_stderr[q]
              /\ SameCalls(calls[p], calls[q])

C11_Witness ==
    /\ running["p1"] = {"7z"}
    /\ extracted["d1"]
    /\ pc["p2"] = "classify"
    /\ Got("p2", "cleanup", "removed")
    /\ ~extracted["d2"]
    /\ archive["d2"] = "complete"
    /\ archive["d1"] = "absent"


\* ------------------------------------------------------------- the archive

ZipSucceeded(p) == Got(p, "7z", "exited") /\ Answer(p, "7z").rc = 0

\* C12: once 7z has exited with code 0 the archive binwalk.7z exists in the
\* working directory during the rest of the invocation and when it ends,
\* whether by return or by a propagated exception, after a failing cleanup
\* or result write too; the artifact is never deleted.
C12_ArchiveKept ==
    /\ \A p \in Procs : ZipSucceeded(p) => archive[OutputDir(p)] = "complete"
    /\ \A d \in Dirs : artifact[d]

C12_Witness ==
    /\ pc["p1"] = "raised"
    /\ ZipSucceeded("p1")
    /\ Got("p1", "cleanup", "rmtree_raised")
    /\ archive["d1"] = "complete"
    /\ extracted["d1"]


\* ------------------------------------------------------ the child processes

\* C13: within one invocation the archiving tool is invoked if and only if
\* the extraction tool returned (no timeout, no launch failure) and the
\* extraction directory existed at the check made after it; when the
\* directory does not exist 7z is never started.
C13_ZipIffExtracted ==
    \A p \in Procs :
        /\ Did(p, "launch_7z") => Got(p, "binwalk", "exited") /\ DirAtCheck(p)
        /\ "7z" \in {spawned[p][i] : i \in 1..Len(spawned[p])} => DirAtCheck(p)
        /\ Ended(p) /\ DirAtCheck(p) => Did(p, "launch_7z")

C13_Witness ==
    /\ pc["p1"] = "returned"
    /\ DirAtCheck("p1")
    /\ Answer("p1", "binwalk").rc # 0
    /\ Got("p1", "launch_7z", "started")
    /\ spawned["p1"] = <<"binwalk", "7z">>

\* C14: an invocation spawns at most two child processes, binwalk at most
\* once and then 7z at most once, nothing is run again after a failure, and
\* 7z is started only after binwalk has finished: the two never run at the
\* same time.
C14_AtMostTwoChildrenInTurn ==
    \A p \in Procs :
        /\ spawned[p] \in {<<>>, <<"binwalk">>, <<"binwalk", "7z">>}
        /\ Cardinality(running[p]) <= 1
        /\ running[p] \subseteq {spawned[p][i] : i \in 1..Len(spawned[p])}
        /\ Len(spawned[p]) = 2 =>
              Got(p, "binwalk", "exited") /\ "binwalk" \notin running[p]

C14_Witness ==
    /\ spawned["p1"] = <<"binwalk", "7z">>
    /\ running["p1"] = {}
    /\ pc["p1"] = "returned"
    /\ Got("p1", "7z", "timeout")


\* ------------------------------------------------------- the records passed

\* The step of the try block that raised, if one did, and str(e) of what it
\* raised.
RaisedInTry(p) ==
    \/ Got(p, "launch_binwalk", "launch_failed")
    \/ Got(p, "binwalk", "timeout")
    \/ Got(p, "check", "raised")
    \/ Got(p, "launch_7z", "launch_failed")
    \/ Got(p, "7z", "timeout")
    \/ CleanupRaised(p)
    \/ Got(p, "update_data", "raised")

RaisedMsg(p) ==
    IF Got(p, "launch_binwalk", "launch_failed") THEN LaunchMsg("binwalk")
    ELSE IF Got(p, "binwalk", "timeout") THEN TimeoutMsg("binwalk")
    ELSE IF Got(p, "check", "raised") THEN ExistsMsg
    ELSE IF Got(p, "launch_7z", "launch_failed") THEN LaunchMsg("7z")
    ELSE IF Got(p, "7z", "timeout") THEN TimeoutMsg("7z")
    ELSE IF CleanupRaised(p) THEN CleanupMsg(p)
    ELSE StoreMsg

Last(p) == calls[p][Len(calls[p])].binwalk

\* C15: an exception raised in the try block, by the extraction tool's
\* invocation, the existence check, the archiving tool's invocation, the
\* removal of the directory or the classification and its write, ends in a
\* record passed to update_data with status error whose error field is the
\* exception's message, without output and without download.
C15_ExceptionReported ==
    \A p \in Procs :
        Ended(p) /\ RaisedInTry(p) =>
            /\ Wrote(p)
            /\ IsError(Last(p), RaisedMsg(p))

C15_Witness ==
    /\ pc["p1"] = "returned"
    /\ Got("p1", "check", "raised")
    /\ extracted["d1"]
    /\ calls["p1"] = <<[dir |-> "d1",
                        binwalk |-> [status |-> "error", error |-> ExistsMsg]]>>

WellFormed(p, r) ==
    /\ r.status \in {"ok", "error"}
    /\ r.status = "error" => DOMAIN r = {"status", "error"}
    /\ r.status = "ok" =>
          /\ "output" \in DOMAIN r
          /\ "error" \notin DOMAIN r
          /\ DOMAIN r \subseteq {"status", "output", "download"}
    /\ "download" \in DOMAIN r => ZipSucceeded(p)

\* C16: every record passed to update_data is well-formed: an error record
\* has an error message and neither output nor download, an ok record has an
\* output and no error, and a download reference is present only if 7z was
\* run in this invocation and exited with code 0, a partial archive left by
\* a failing 7z notwithstanding.
C16_RecordsWellFormed ==
    \A p \in Procs :
        \A i \in 1..Len(calls[p]) : WellFormed(p, calls[p][i].binwalk)

C16_Witness ==
    /\ pc["p1"] = "returned"
    /\ ZipFailed("p1")
    /\ archive["d1"] = "partial"
    /\ CleanupDone("p1")
    /\ Len(calls["p1"]) = 1
    /\ First("p1").status = "error"


\* ------------------------------------------------------------- termination

\* Both subprocess.run calls block for at most MAX_PENDING_TIME and every
\* other step is a finite computation or a single call: a step that can be
\* taken is taken.
SpecLive == Spec /\ WF_vars(Next)

InCall(p) == pc[p] \notin {"idle", "returned", "raised"}

\* C17: a child that exceeds the timeout is terminated and the caller is
\* unblocked: when control comes back to the caller of analyze_binwalk, no
\* child started by that invocation, binwalk or 7z, is still running, and
\* every invocation that was entered comes back to its caller.
C17_ChildrenGoneAndCallEnds ==
    /\ [](\A p \in Procs : Ended(p) => running[p] = {})
    /\ \A p \in Procs : InCall(p) ~> Ended(p)

C17_Witness ==
    /\ pc["p1"] = "returned"
    /\ Got("p1", "binwalk", "timeout")
    /\ spawned["p1"] = <<"binwalk">>
    /\ running["p1"] = {}


\* ------------------------------------------------ invocations in sequence

\* C18: over a sequence of invocations on the same working directory and
\* artifact, an invocation finds the extraction directory at its check, runs
\* 7z and passes a record with a download reference only if its own binwalk
\* run created the directory; a directory left by an earlier invocation is
\* never archived.
C18_OnlyOwnExtraction ==
    \A p \in Procs :
        /\ DirAtCheck(p) => OwnCreated(p)
        /\ Did(p, "launch_7z") => OwnCreated(p)
        /\ \A i \in 1..Len(calls[p]) :
              "download" \in DOMAIN calls[p][i].binwalk => OwnCreated(p)


\* C19: on every path that reaches the classification, the extraction
\* directory is removed before the result is written: when update_data is
\* called with a classified record, an ok record or an error record built
\* from the tools' stderr, and until that call has answered, the extraction
\* directory does not exist.
C19_RemovedBeforeWrite ==
    \A p \in Procs :
        pc[p] = "classify" \/ Did(p, "update_data") =>
            ~extracted[OutputDir(p)]

C19_Witness ==
    /\ Got("p1", "binwalk", "exited")
    /\ OwnCreated("p1")
    /\ Got("p1", "cleanup", "removed")
    /\ Got("p1", "update_data", "stored")
    /\ pc["p1"] = "returned"
    /\ ~extracted["d1"]

=============================================================================
